---- MODULE Spec2Model ----
(***************************************************************************)
(* A model of mprisctl.py: the MPRISManager registry of MPRISPlayer        *)
(* handles, its selection of the primary player, and the handling of the   *)
(* NameOwnerChanged and PropertiesChanged signals of the session bus.      *)
(***************************************************************************)
EXTENDS Integers, Sequences, FiniteSets, TLC

\* ------------------------------------------------------------------ bounds
MaxNames == 2   \* bus names 'org.mpris.MediaPlayer2.<n>' that may appear
MaxOwner == 3   \* unique connection names ':1.<o>' the bus hands out
MaxTrack == 1   \* distinct tracks a peer may report as its Metadata

Names == 1..MaxNames
Owners == 1..MaxOwner
Tracks == 0..MaxTrack
\* the empty owner string '' of a NameOwnerChanged signal
NoOwner == 0
\* object identities of MPRISPlayer instances; 0 is the NonePlayer instance
Ids == 1..(MaxNames + 3)
NonePlayer == 0

\* ------------------------------------------------------------ Python values
\* a str and a list are different values in Python: tag them
Str(s) == [isList |-> FALSE, s |-> s, l |-> <<>>]
List(l) == [isList |-> TRUE, s |-> "", l |-> l]
\* None or a str (prev_content)
NoContent == [isNone |-> TRUE, s |-> ""]
Content(s) == [isNone |-> FALSE, s |-> s]

\* a key of a Metadata dict: a six character namespace and the field name
Key(ns, name) == [ns |-> ns, name |-> name]
\* 'xesam:' + key
Xesam(name) == Key("xesam:", name)
\* key[6:]
normal_key(key) == key.name

\* dicts keep insertion order: a sequence of [key, val] without repeated keys
DictHas(d, k) == \E i \in 1..Len(d) : d[i].key = k
DictGet(d, k) == d[CHOOSE i \in 1..Len(d) : d[i].key = k].val
DictSet(d, k, v) ==
    IF DictHas(d, k)
    THEN [i \in 1..Len(d) |-> IF d[i].key = k THEN [key |-> k, val |-> v] ELSE d[i]]
    ELSE Append(d, [key |-> k, val |-> v])
DictDel(d, k) == SelectSeq(d, LAMBDA e : e.key # k)
DictVals(d) == {d[i].val : i \in 1..Len(d)}
DictKeys(d) == {d[i].key : i \in 1..Len(d)}

\* ------------------------------------------------------------ the bus side
PlayerInterface == "org.mpris.MediaPlayer2.Player"
RootInterface == "org.mpris.MediaPlayer2"
PlaybackStatuses == {"Playing", "Paused", "Stopped"}

\* the Metadata property a peer reports while on track t (0: nothing loaded)
BusMetadata(t) ==
    IF t = 0 THEN <<>>
    ELSE << [key |-> Key("mpris:", "trackid"), val |-> Str("/track/" \o ToString(t))],
            [key |-> Xesam("title"), val |-> Str("Song" \o ToString(t))],
            [key |-> Xesam("artist"), val |-> List(<<"Band" \o ToString(t)>>)],
            [key |-> Xesam("album"), val |-> Str("Album" \o ToString(t))] >>

\* the bus names of NameOwnerChanged signals
NamespacePrefix == "org.mpris.MediaPlayer2"
OtherPrefix == "org.freedesktop"
BusName(prefix, n) == [prefix |-> prefix, n |-> n]
\* is_player_bus, had it taken every name for a player's
is_player_bus_AnyName(bus_name) == TRUE
is_player_bus(bus_name) == bus_name.prefix = NamespacePrefix

\* ------------------------------------------------------------------ strings
\* A format string is a sequence of letters; a letter is a marker '{{x}}' or a
\* chunk of literal text, which str.find, str.replace and slicing never split
\* as long as the markers they look for are present.
Tag(name) == "{{" \o name \o "}}"
\* main(): the default of --format
DefaultFormat ==
    << Tag("playing"), "Playing: ", Tag("/playing"),
       Tag("paused"), "Paused: ", Tag("/paused"),
       Tag("artist"), " - ", Tag("title") >>

RECURSIVE Flatten(_)
\* the str a sequence of letters spells
Flatten(seq) == IF seq = <<>> THEN "" ELSE Head(seq) \o Flatten(Tail(seq))

\* str.replace(old, new) for a one-letter old
StrReplace(seq, old, new) ==
    [i \in 1..Len(seq) |-> IF seq[i] = old THEN new ELSE seq[i]]
\* str.find(sub) for a one-letter sub: a 0-based index, or -1
StrFind(seq, sub) ==
    IF \E i \in 1..Len(seq) : seq[i] = sub
    THEN (CHOOSE i \in 1..Len(seq) :
            seq[i] = sub /\ \A j \in 1..(i - 1) : seq[j] # sub) - 1
    ELSE -1
\* a Python slice bound: negative counts from the end, then clipped
SliceBound(seq, k) ==
    LET n == Len(seq)
        kk == IF k < 0 THEN n + k ELSE k
    IN  IF kk < 0 THEN 0 ELSE IF kk > n THEN n ELSE kk
\* seq[:k] and seq[k:]
SliceTo(seq, k) == SubSeq(seq, 1, SliceBound(seq, k))
SliceFrom(seq, k) == SubSeq(seq, SliceBound(seq, k) + 1, Len(seq))

\* replace_str of replace_block: None, or a str
NoReplace == [isNone |-> TRUE, s |-> <<>>]
ReplaceWith(s) == [isNone |-> FALSE, s |-> s]

\* replace_block, had its slice begun at end_pos
replace_block_FromEndPos(original, block_name, replace_str) ==
    LET block_begin == Tag(block_name)
        block_end == Tag("/" \o block_name)
        start_pos == StrFind(original, block_begin)
        end_pos == StrFind(original, block_end)
    IN  IF ~replace_str.isNone
        THEN SliceTo(original, start_pos) \o replace_str.s
                \o SliceFrom(original, end_pos)
        ELSE StrReplace(StrReplace(original, block_begin, ""), block_end, "")

replace_block(original, block_name, replace_str) ==
    LET block_begin == Tag(block_name)
        block_end == Tag("/" \o block_name)
        start_pos == StrFind(original, block_begin)
        end_pos == StrFind(original, block_end)
    IN  IF ~replace_str.isNone
        THEN SliceTo(original, start_pos) \o replace_str.s
                \o SliceFrom(original, end_pos + 1)
        ELSE StrReplace(StrReplace(original, block_begin, ""), block_end, "")

\* the order of self.metadata.keys()
MetadataKeys == <<"title", "artist", "album">>

RECURSIVE replace_tag_from(_, _, _)
\* the loop of replace_tag from the i-th key on: [exc, s]
replace_tag_from(result, value_dict, i) ==
    IF i > Len(MetadataKeys) THEN [exc |-> "none", s |-> result]
    ELSE LET tag_name == MetadataKeys[i]
             v == value_dict[tag_name]
         IN  IF v.isList /\ v.l = <<>>
             THEN [exc |-> "IndexError", s |-> result]
             ELSE replace_tag_from(
                    StrReplace(result, Tag(tag_name), IF v.isList THEN v.l[1] ELSE v.s),
                    value_dict, i + 1)

replace_tag(original, value_dict) == replace_tag_from(original, value_dict, 1)

\* --------------------------------------------------------------- MPRISPlayer
\* MPRISPlayer.__init__ before its update_status()
NewPlayer(bus_name) ==
    [ alloc |-> TRUE,
      bus_name |-> bus_name,
      connection |-> "None",
      is_playing |-> "None",
      metadata |-> [title |-> Str(""), artist |-> List(<<>>), album |-> Str("")],
      prev_content |-> NoContent ]
\* a slot of the heap that holds no object
NoObject == [NewPlayer(0) EXCEPT !.alloc = FALSE]

\* the mapping of a PlaybackStatus string to is_playing
PlaybackOf(status) ==
    IF status = "Playing" THEN "True"
    ELSE IF status = "Paused" THEN "False"
    ELSE "None"
\* isinstance(player.is_playing, bool)
IsBool(is_playing) == is_playing \in {"True", "False"}

\* changed_props of a PropertiesChanged signal: the keys it carries and the
\* values of the two it reads
ChangedProps(keys, metadata, status) ==
    [keys |-> keys, Metadata |-> metadata, PlaybackStatus |-> status]
NoProps == ChangedProps({}, <<>>, "Stopped")

\* FirstDiffering, had the loop gone on to the last key that differs
FirstDiffering_Last(self, md) ==
    LET differs(i) == /\ normal_key(md[i].key) \in DOMAIN self.metadata
                      /\ self.metadata[normal_key(md[i].key)] # md[i].val
    IN  IF \E i \in 1..Len(md) : differs(i)
        THEN CHOOSE i \in 1..Len(md) : differs(i) /\ \A j \in (i + 1)..Len(md) : ~differs(j)
        ELSE 0

\* the first key of the changed Metadata whose value differs from the cache
FirstDiffering(self, md) ==
    LET differs(i) == /\ normal_key(md[i].key) \in DOMAIN self.metadata
                      /\ self.metadata[normal_key(md[i].key)] # md[i].val
    IN  IF \E i \in 1..Len(md) : differs(i)
        THEN CHOOSE i \in 1..Len(md) : differs(i) /\ \A j \in 1..(i - 1) : ~differs(j)
        ELSE 0

\* update_status(changed_props) past its Position test: the Metadata loop,
\* which returns at the first sub-field that differs, then PlaybackStatus
update_status_unpositioned(self, changed_props) ==
    LET md == changed_props.Metadata
        i == IF "Metadata" \in changed_props.keys THEN FirstDiffering(self, md) ELSE 0
    IN  IF i # 0
        THEN [self |-> [self EXCEPT !.metadata[normal_key(md[i].key)] = md[i].val],
              updated |-> TRUE, unavailable |-> FALSE]
        ELSE IF "PlaybackStatus" \in changed_props.keys
        THEN [self |-> [self EXCEPT !.is_playing = PlaybackOf(changed_props.PlaybackStatus)],
              updated |-> TRUE, unavailable |-> FALSE]
        ELSE [self |-> self, updated |-> FALSE, unavailable |-> FALSE]

\* update_status_changed, had the Position test returned True
update_status_changed_PositionUpdates(self, changed_props) ==
    IF "Position" \in changed_props.keys
    THEN [self |-> self, updated |-> TRUE, unavailable |-> FALSE]
    ELSE update_status_unpositioned(self, changed_props)

\* update_status(changed_props) with a non-empty changed_props:
\* [self, updated, unavailable]
update_status_changed(self, changed_props) ==
    IF "Position" \in changed_props.keys
    THEN [self |-> self, updated |-> FALSE, unavailable |-> FALSE]
    ELSE update_status_unpositioned(self, changed_props)

\* which of the two Get calls of a full refresh raises DBusException
FailModes == {"none", "Metadata", "PlaybackStatus"}

\* update_status() without changed_props: raw_metadata and playback are what
\* the two Get calls return
update_status_full(self, raw_metadata, playback, fail) ==
    IF fail = "Metadata"
    THEN [self |-> self, updated |-> FALSE, unavailable |-> TRUE]
    ELSE LET md == [key \in DOMAIN self.metadata |->
                        IF DictHas(raw_metadata, Xesam(key))
                        THEN DictGet(raw_metadata, Xesam(key))
                        ELSE Str("")]
         IN  IF fail = "PlaybackStatus"
             THEN [self |-> [self EXCEPT !.metadata = md],
                   updated |-> FALSE, unavailable |-> TRUE]
             ELSE [self |-> [self EXCEPT !.metadata = md,
                                         !.is_playing = PlaybackOf(playback)],
                   updated |-> TRUE, unavailable |-> FALSE]

\* update_status: an empty (or absent) changed_props is falsy
update_status(self, changed_props, raw_metadata, playback, fail) ==
    IF changed_props.keys # {}
    THEN update_status_changed(self, changed_props)
    ELSE update_status_full(self, raw_metadata, playback, fail)

\* print_status, had it printed without comparing with prev_content
print_status_Unsuppressed(self, format_string) ==
    LET tagged == replace_tag(format_string, self.metadata)
        result == IF self.is_playing = "True"
                  THEN replace_block(replace_block(tagged.s, "playing", NoReplace),
                                     "paused", ReplaceWith(<<>>))
                  ELSE replace_block(replace_block(tagged.s, "playing", ReplaceWith(<<>>)),
                                     "paused", NoReplace)
        content == Content(Flatten(result))
    IN  IF tagged.exc # "none"
        THEN [self |-> self, exc |-> tagged.exc, emitted |-> <<>>]
        ELSE [self |-> [self EXCEPT !.prev_content = content],
              exc |-> "none", emitted |-> <<content.s>>]

\* print_status: [self, exc, emitted], emitted the strings print_always printed
print_status(self, format_string) ==
    LET tagged == replace_tag(format_string, self.metadata)
        result == IF self.is_playing = "True"
                  THEN replace_block(replace_block(tagged.s, "playing", NoReplace),
                                     "paused", ReplaceWith(<<>>))
                  ELSE replace_block(replace_block(tagged.s, "playing", ReplaceWith(<<>>)),
                                     "paused", NoReplace)
        content == Content(Flatten(result))
    IN  IF tagged.exc # "none"
        THEN [self |-> self, exc |-> tagged.exc, emitted |-> <<>>]
        ELSE IF content # self.prev_content
        THEN [self |-> [self EXCEPT !.prev_content = content],
              exc |-> "none", emitted |-> <<content.s>>]
        ELSE [self |-> self, exc |-> "none", emitted |-> <<>>]

\* connect, had it not kept what connect_to_signal returns
connect_NotKept(self) == [self |-> self, exc |-> "none"]
\* connect: [self, exc]
connect(self) == [self |-> [self EXCEPT !.connection = "active"], exc |-> "none"]
\* disconnect: self.connection.remove(); None has no remove
disconnect(self) ==
    IF self.connection = "None"
    THEN [self |-> self, exc |-> "AttributeError"]
    ELSE [self |-> [self EXCEPT !.connection = "removed"], exc |-> "none"]

\* play, pause, playpause, stop, previous, next of MPRISPlayer: one call of the
\* peer's method, failed if the bus raises DBusException: [self, exc, called,
\* emitted], called that the bus was called
control(self, failed) ==
    [self |-> self, exc |-> IF failed THEN "DBusException" ELSE "none",
     called |-> TRUE, emitted |-> <<>>]

\* a method of NonePlayer, had the class inherited it from MPRISPlayer: it
\* reads an attribute that NonePlayer.__init__ never set
NonePlayer_method_Inherited(method) ==
    [exc |-> "AttributeError", called |-> FALSE, emitted |-> <<>>]
\* a method of NonePlayer (play .. next, get, connect, disconnect,
\* print_status): pass
NonePlayer_method(method) ==
    [exc |-> "none", called |-> FALSE, emitted |-> <<>>]

\* -------------------------------------------------------------- MPRISManager
VARIABLES
    owner,           \* the bus: the owner of each namespace name, NoOwner if none
    obj,             \* the heap: the MPRISPlayer object of each identity
    players,         \* MPRISManager.players: a dict from owner to identity
    primary_player,  \* MPRISManager.primary_player: an identity, or NonePlayer
    format_string,   \* MPRISManager.format_string, which every MPRISPlayer gets
    ev               \* what the last handled event was and what it was seen to do

vars == <<owner, obj, players, primary_player, format_string, ev>>

\* the manager's part of the state, as the handlers thread it
Manager(o, p, pp) == [obj |-> o, players |-> p, primary_player |-> pp]

\* the objects something still refers to: the dict, primary_player, and the
\* bus connection, which holds the handler of an active subscription
Referenced(m) ==
    DictVals(m.players) \cup ({m.primary_player} \ {NonePlayer})
        \cup {i \in Ids : m.obj[i].alloc /\ m.obj[i].connection = "active"}

RECURSIVE Ascending(_)
\* a set of identities as a sequence, lowest first
Ascending(ids) ==
    IF ids = {} THEN <<>>
    ELSE LET i == CHOOSE x \in ids : \A y \in ids : x <= y
         IN  <<i>> \o Ascending(ids \ {i})

\* Garbage collection. An identity only tells objects apart, so the objects
\* still referred to are numbered anew after every handler: those of the dict
\* in its order, then the others.
Collect(m) ==
    LET inDict == [i \in 1..Len(m.players) |-> m.players[i].val]
        kept == inDict \o Ascending(Referenced(m) \ DictVals(m.players))
        renamed(old) == CHOOSE k \in 1..Len(kept) : kept[k] = old
    IN  [ obj |-> [i \in Ids |-> IF i <= Len(kept) THEN m.obj[kept[i]] ELSE NoObject],
          players |-> [i \in 1..Len(m.players) |-> [key |-> m.players[i].key, val |-> i]],
          primary_player |-> IF m.primary_player = NonePlayer THEN NonePlayer
                             ELSE renamed(m.primary_player) ]
\* the identity of a newly constructed object
FreshId(m) == CHOOSE i \in Ids : ~m.obj[i].alloc /\ \A j \in 1..(i - 1) : m.obj[j].alloc

\* add_player: construct the MPRISPlayer (its update_status() included) and
\* store it under owner
add_player(m, bus_name, key, raw_metadata, playback, fail) ==
    LET id == FreshId(m)
        made == update_status(NewPlayer(bus_name), NoProps, raw_metadata, playback, fail)
    IN  [m |-> [m EXCEPT !.obj[id] = made.self,
                         !.players = DictSet(m.players, key, id)],
         exc |-> "none", unavailable |-> made.unavailable, id |-> id]

\* del_player: del of a missing key raises KeyError
del_player(m, key) ==
    IF ~DictHas(m.players, key)
    THEN [m |-> m, exc |-> "KeyError"]
    ELSE [m |-> [m EXCEPT !.players = DictDel(m.players, key)], exc |-> "none"]

\* change_owner: the entry moves to the end of the dict under new_owner
change_owner(m, old_owner, new_owner) ==
    IF ~DictHas(m.players, old_owner)
    THEN [m |-> m, exc |-> "KeyError"]
    ELSE LET temp == DictGet(m.players, old_owner)
         IN  [m |-> [m EXCEPT !.players =
                        DictSet(DictDel(m.players, old_owner), new_owner, temp)],
              exc |-> "none"]

\* FirstActive, had update_players tested `if player.is_playing:`
FirstActive_Truthy(m) ==
    LET d == m.players
        active(i) == m.obj[d[i].val].is_playing = "True"
    IN  IF \E i \in 1..Len(d) : active(i)
        THEN d[CHOOSE i \in 1..Len(d) : active(i) /\ \A j \in 1..(i - 1) : ~active(j)].val
        ELSE NonePlayer

\* the first entry of the dict whose is_playing is a bool, 0 if none
FirstActive(m) ==
    LET d == m.players
        active(i) == IsBool(m.obj[d[i].val].is_playing)
    IN  IF \E i \in 1..Len(d) : active(i)
        THEN d[CHOOSE i \in 1..Len(d) : active(i) /\ \A j \in 1..(i - 1) : ~active(j)].val
        ELSE NonePlayer

\* update_players, had it not called self.primary_player.disconnect()
update_players_NoDisconnect(m) ==
    LET player == FirstActive(m)
    IN  IF player = NonePlayer
        THEN [m |-> m, exc |-> "none", noActive |-> TRUE,
              disconnected |-> "", connected |-> ""]
        ELSE IF m.primary_player = player
        THEN [m |-> m, exc |-> "none", noActive |-> FALSE,
              disconnected |-> "", connected |-> ""]
        ELSE [m |-> [m EXCEPT !.primary_player = player,
                              !.obj[player] = connect(m.obj[player]).self],
              exc |-> "none", noActive |-> FALSE,
              disconnected |-> "", connected |-> m.obj[player].connection]

\* update_players: [m, exc, noActive, disconnected, connected]; disconnected
\* is the connection that the object whose disconnect() it called had at the
\* call ("NonePlayer" for the NonePlayer), connected that of the object whose
\* connect() it called, "" where it made no such call
update_players(m) ==
    LET player == FirstActive(m)
        pp == m.primary_player
    IN  IF player = NonePlayer
        THEN [m |-> m, exc |-> "none", noActive |-> TRUE,
              disconnected |-> "", connected |-> ""]
        ELSE IF pp = player
        THEN [m |-> m, exc |-> "none", noActive |-> FALSE,
              disconnected |-> "", connected |-> ""]
        ELSE LET dis == IF pp = NonePlayer
                        THEN [self |-> NoObject, exc |-> NonePlayer_method("disconnect").exc]
                        ELSE disconnect(m.obj[pp])
                 m1 == IF pp = NonePlayer THEN m ELSE [m EXCEPT !.obj[pp] = dis.self]
                 was == IF pp = NonePlayer THEN "NonePlayer" ELSE m.obj[pp].connection
             IN  IF dis.exc # "none"
                 THEN [m |-> m1, exc |-> dis.exc, noActive |-> FALSE,
                       disconnected |-> was, connected |-> ""]
                 ELSE [m |-> [m1 EXCEPT !.primary_player = player,
                                        !.obj[player] = connect(m1.obj[player]).self],
                       exc |-> "none", noActive |-> FALSE,
                       disconnected |-> was, connected |-> m1.obj[player].connection]

\* the record of a handled event: kind is "init", "arrival", "departure",
\* "rename", "ignored" (a name outside the namespace), "PropertiesChanged" (of
\* the Player interface), "OtherInterface" or "command" (of the command line);
\* n is the number of the bus name, 0 for a name outside the namespace
Event(kind, n) ==
    [ kind |-> kind, n |-> n,
      exc |-> "none",        \* the exception that ended the handler, if any
      pass |-> FALSE,        \* update_players ran to its end
      noActive |-> FALSE,    \* "NO ACTIVE PLAYERS" was printed
      unavailable |-> FALSE, \* "METADATA UNAVAILABLE" was printed
      rendered |-> FALSE,    \* print_status was called
      emitted |-> <<>>,      \* the strings print_always printed
      fresh |-> FALSE,       \* of an arrival: it met the manager as constructed
                             \* on an empty bus (no players, the NonePlayer)
      keys |-> {},           \* of PropertiesChanged: the names in changed_props
      status |-> "",         \* of PropertiesChanged: its PlaybackStatus, if any
      metadata |-> <<>>,     \* of PropertiesChanged: its Metadata, if any
      disconnected |-> "",   \* of update_players: see there
      connected |-> "",      \* of update_players: see there
      command |-> "",        \* of a command: args.command
      called |-> FALSE,      \* of a command: a method of the peer was called
      failed |-> FALSE ]     \* of a command: the bus raises DBusException

\* on_NameOwnerChanged: [m, e], e the record of what it did
on_NameOwnerChanged(m, name, old_owner, new_owner, raw_metadata, playback, fail) ==
    LET kind == IF old_owner = NoOwner /\ new_owner # NoOwner THEN "arrival"
                ELSE IF new_owner = NoOwner /\ old_owner # NoOwner THEN "departure"
                ELSE "rename"
        e0 == [Event(kind, name.n) EXCEPT
                    !.fresh = /\ kind = "arrival"
                              /\ m.players = <<>>
                              /\ m.primary_player = NonePlayer]
    IN  IF ~is_player_bus(name)
        THEN [m |-> m, e |-> [e0 EXCEPT !.kind = "ignored"]]
        ELSE LET step ==
                    IF kind = "arrival"
                    THEN add_player(m, name.n, old_owner, raw_metadata, playback, fail)
                    ELSE IF kind = "departure"
                    THEN del_player(m, old_owner) @@ [unavailable |-> FALSE]
                    ELSE change_owner(m, old_owner, new_owner) @@ [unavailable |-> FALSE]
                 e1 == [e0 EXCEPT !.unavailable = step.unavailable]
             IN  IF step.exc # "none"
                 THEN [m |-> step.m, e |-> [e1 EXCEPT !.exc = step.exc]]
                 ELSE LET up == update_players(step.m)
                      IN  [m |-> up.m,
                           e |-> [e1 EXCEPT !.exc = up.exc,
                                            !.pass = (up.exc = "none"),
                                            !.noActive = up.noActive,
                                            !.disconnected = up.disconnected,
                                            !.connected = up.connected]]

RECURSIVE populate_players(_, _, _, _, _)
\* populate_players over list_names() = names, each name n owned by own[n]
populate_players(m, names, own, track, fail) ==
    IF names = <<>> THEN [m |-> m, unavailable |-> FALSE]
    ELSE LET n == Head(names)
             added == add_player(m, n, own[n], BusMetadata(track[n].t),
                                 track[n].status, fail[n])
             rest == populate_players(added.m, Tail(names), own, track, fail)
         IN  [m |-> rest.m, unavailable |-> added.unavailable \/ rest.unavailable]

\* the orders in which list_names() may give the names on the bus
NameOrders ==
    {s \in UNION {[1..k -> Names] : k \in 0..MaxNames} :
        \A i, j \in 1..Len(s) : i # j => s[i] # s[j]}
Range(f) == {f[x] : x \in DOMAIN f}

\* what a peer shows on the bus: its track and its PlaybackStatus
PeerStatesOn(tracks) == [t : tracks, status : PlaybackStatuses]
PeerStates == PeerStatesOn(Tracks)
\* the peers of the manager's specification have no track loaded: what the
\* manager does never reads a handle's metadata
IdlePeers == PeerStatesOn({0})

\* MPRISManager(args.format) on a bus where list_names() is one of orders and
\* every peer is in one of the states peers, args.format one of formats
InitOnWith(orders, peers, formats) ==
    \E names \in orders, track \in [Names -> peers], fail \in [Names -> FailModes] :
        LET own == [n \in Names |-> IF n \in Range(names) THEN n ELSE NoOwner]
            m0 == Manager([i \in Ids |-> NoObject], <<>>, NonePlayer)
            pop == populate_players(m0, names, own, track, fail)
            up == update_players(pop.m)
            m == Collect(up.m)
        IN  /\ owner = own
            /\ obj = m.obj
            /\ players = m.players
            /\ primary_player = m.primary_player
            /\ format_string \in formats
            /\ ev = [Event("init", 0) EXCEPT
                        !.exc = up.exc, !.pass = (up.exc = "none"),
                        !.noActive = up.noActive, !.unavailable = pop.unavailable,
                        !.disconnected = up.disconnected, !.connected = up.connected]
\* with the default of --format
InitOn(orders, peers) == InitOnWith(orders, peers, {DefaultFormat})

\* MPRISManager.__init__ on any bus
Init == InitOn(NameOrders, IdlePeers)

\* the manager as the handlers find it
Self == Manager(obj, players, primary_player)
\* the manager as a handler leaves it
Becomes(m) ==
    LET c == Collect(m)
    IN  /\ obj' = c.obj
        /\ players' = c.players
        /\ primary_player' = c.primary_player
        /\ UNCHANGED format_string

\* the owners no name of the namespace has now
FreeOwners == Owners \ Range(owner)
\* An owner is a token the manager only compares: the bus hands out the
\* lowest of those no name has.
NewOwner == CHOOSE o \in FreeOwners : \A x \in FreeOwners : o <= x

\* a peer takes a name of the namespace: NameOwnerChanged(name, '', o)
Arrival(n, o, peer, fail) ==
    /\ owner[n] = NoOwner
    /\ FreeOwners # {}
    /\ o = NewOwner
    /\ LET r == on_NameOwnerChanged(Self, BusName(NamespacePrefix, n), NoOwner, o,
                                    BusMetadata(peer.t), peer.status, fail)
       IN  Becomes(r.m) /\ ev' = r.e
    /\ owner' = [owner EXCEPT ![n] = o]

\* a peer leaves the bus: NameOwnerChanged(name, o, '')
Departure(n) ==
    /\ owner[n] # NoOwner
    /\ LET r == on_NameOwnerChanged(Self, BusName(NamespacePrefix, n), owner[n], NoOwner,
                                    <<>>, "Stopped", "none")
       IN  Becomes(r.m) /\ ev' = r.e
    /\ owner' = [owner EXCEPT ![n] = NoOwner]

\* a name passes to another connection: NameOwnerChanged(name, a, b)
Rename(n, o) ==
    /\ owner[n] # NoOwner
    /\ FreeOwners # {}
    /\ o = NewOwner
    /\ LET r == on_NameOwnerChanged(Self, BusName(NamespacePrefix, n), owner[n], o,
                                    <<>>, "Stopped", "none")
       IN  Becomes(r.m) /\ ev' = r.e
    /\ owner' = [owner EXCEPT ![n] = o]

\* an arrival, a departure and a rename of a name outside the namespace
OtherOwnerPairs == {<<NoOwner, 1>>, <<1, NoOwner>>, <<1, 2>>}
\* NameOwnerChanged for a name outside the namespace
OtherName(old_owner, new_owner) ==
    /\ old_owner # NoOwner \/ new_owner # NoOwner
    /\ LET r == on_NameOwnerChanged(Self, BusName(OtherPrefix, 0), old_owner, new_owner,
                                    <<>>, "Stopped", "none")
       IN  Becomes(r.m) /\ ev' = r.e
    /\ UNCHANGED owner

\* on_PropertiesChanged: [self, exc, unavailable, rendered, emitted]
on_PropertiesChanged(self, interface, changed_props, raw_metadata, playback, fail) ==
    IF interface # PlayerInterface
    THEN [self |-> self, exc |-> "none", unavailable |-> FALSE,
          rendered |-> FALSE, emitted |-> <<>>]
    ELSE LET up == update_status(self, changed_props, raw_metadata, playback, fail)
             pr == print_status(up.self, format_string)
         IN  IF up.updated
             THEN [self |-> pr.self, exc |-> pr.exc, unavailable |-> up.unavailable,
                   rendered |-> TRUE, emitted |-> pr.emitted]
             ELSE [self |-> up.self, exc |-> "none", unavailable |-> up.unavailable,
                   rendered |-> FALSE, emitted |-> <<>>]

\* the property names a PropertiesChanged signal of the Player interface may carry
PropNames == {"Position", "Metadata", "PlaybackStatus", "Volume"}
\* the Metadata of a signal is a dict in the order its sender built it
Reverse(s) == [i \in 1..Len(s) |-> s[Len(s) + 1 - i]]
MetadataOrders(t) == {BusMetadata(t), Reverse(BusMetadata(t))}
\* a signal gives values only for the keys it carries
SignalsOn(keysets, tracks) ==
    UNION {{ChangedProps(keys,
                         IF "Metadata" \in keys THEN md ELSE <<>>,
                         IF "PlaybackStatus" \in keys THEN status ELSE "Stopped") :
                md \in MetadataOrders(t), status \in PlaybackStatuses} :
           keys \in keysets, t \in tracks}

\* what the Get calls of a full refresh meet: the peer's state, and a failure
RefreshesOn(tracks) == [peer : PeerStatesOn(tracks), fail : FailModes]
NoRefresh == [peer |-> [t |-> 0, status |-> "Stopped"], fail |-> "none"]
\* the signals of the Player interface, each with what its handler may read:
\* only an empty changed_props leads to the Get calls
PlayerSignalsOn(keysets, tracks) ==
    {sig \in SignalsOn(keysets, tracks) \X RefreshesOn(tracks) :
        sig[1].keys # {} => sig[2] = NoRefresh}
\* The signals of the manager's specification carry at most one property. A
\* signal of several leaves a handle as one of these does: as Position alone
\* if it carries Position, else as Metadata alone if a sub-field differs, else
\* as PlaybackStatus alone if it carries one, else as Position alone.
SingleKeySignals ==
    PlayerSignalsOn({{}, {"Position"}, {"Metadata"}, {"PlaybackStatus"}}, {0})

\* Subscribed, had every MPRISPlayer connected itself when constructed
Subscribed_FromCreation(n) ==
    {i \in Ids : obj[i].alloc /\ obj[i].bus_name = n}
\* the objects whose subscription matches a signal of name n
Subscribed(n) ==
    {i \in Ids : obj[i].alloc /\ obj[i].connection = "active" /\ obj[i].bus_name = n}

RECURSIVE EmittedBy(_, _)
\* the strings the handlers of rs, a function of identities, printed, in order
EmittedBy(rs, ids) ==
    IF ids = {} THEN <<>>
    ELSE LET i == CHOOSE x \in ids : \A y \in ids : x <= y
         IN  rs[i].emitted \o EmittedBy(rs, ids \ {i})

\* a peer signals PropertiesChanged(interface, changed_props, []): the handler
\* of every subscription that matches runs
PropertiesChanged(n, interface, changed_props, refresh) ==
    /\ owner[n] # NoOwner
    /\ LET hs == Subscribed(n)
           rs == [i \in hs |-> on_PropertiesChanged(obj[i], interface, changed_props,
                                    BusMetadata(refresh.peer.t), refresh.peer.status,
                                    refresh.fail)]
       IN  /\ Becomes([Self EXCEPT !.obj = [i \in Ids |-> IF i \in hs THEN rs[i].self
                                                          ELSE obj[i]]])
           /\ ev' = [Event(IF interface = PlayerInterface THEN "PropertiesChanged"
                           ELSE "OtherInterface", n) EXCEPT
                        !.exc = IF \E i \in hs : rs[i].exc # "none"
                                THEN rs[CHOOSE i \in hs : rs[i].exc # "none"].exc
                                ELSE "none",
                        !.unavailable = \E i \in hs : rs[i].unavailable,
                        !.rendered = \E i \in hs : rs[i].rendered,
                        !.emitted = EmittedBy(rs, hs),
                        !.keys = changed_props.keys,
                        !.metadata = changed_props.Metadata,
                        !.status = IF "PlaybackStatus" \in changed_props.keys
                                   THEN changed_props.PlaybackStatus ELSE ""]
    /\ UNCHANGED owner

Next ==
    \/ \E n \in Names, o \in Owners, peer \in IdlePeers, fail \in FailModes :
            Arrival(n, o, peer, fail)
    \/ \E n \in Names : Departure(n)
    \/ \E n \in Names, o \in Owners : Rename(n, o)
    \/ \E pair \in OtherOwnerPairs : OtherName(pair[1], pair[2])
    \/ \E n \in Names, sig \in SingleKeySignals :
            PropertiesChanged(n, PlayerInterface, sig[1], sig[2])
    \/ \E n \in Names :
            PropertiesChanged(n, RootInterface, ChangedProps({"Volume"}, <<>>, "Stopped"),
                              NoRefresh)

Spec == Init /\ [][Next]_vars

\* ------------------------------------------------------- one peer, any track
\* The manager with one peer on the bus, which stays and signals any change
\* of its properties: what update_status and print_status do to a handle.
InitPlayer == InitOn({<<1>>}, PeerStates)

NextPlayer ==
    \/ \E sig \in PlayerSignalsOn(SUBSET PropNames, Tracks) :
            PropertiesChanged(1, PlayerInterface, sig[1], sig[2])
    \/ PropertiesChanged(1, RootInterface, ChangedProps({"Volume"}, <<>>, "Stopped"),
                         NoRefresh)

SpecPlayer == InitPlayer /\ [][NextPlayer]_vars

\* ------------------------------------------------------- one peer, any format
\* what a block of a format string may hold, and what may stand around the blocks
Inners(text) == {<<>>, <<text>>, <<text, Tag("title")>>}
Pads == {<<>>, <<Tag("artist"), " - ">>}
Block(name, inner) == <<Tag(name)>> \o inner \o <<Tag("/" \o name)>>
\* the values of --format with one playing block and one paused block, one
\* after the other in either order
Templates ==
    LET playing == {Block("playing", inner) : inner \in Inners("Playing: ")}
        paused == {Block("paused", inner) : inner \in Inners("Paused: ")}
        pairs == (playing \X paused) \cup (paused \X playing)
    IN  {pre \o pair[1] \o mid \o pair[2] \o post :
            pre \in Pads, mid \in Pads, post \in Pads, pair \in pairs}

\* The manager of one peer under any of these formats; the peer signals its
\* changes of PlaybackStatus and of Metadata.
InitRender == InitOnWith({<<1>>}, PeerStates, Templates)

NextRender ==
    \E sig \in PlayerSignalsOn({{"PlaybackStatus"}, {"Metadata"}}, Tracks) :
        PropertiesChanged(1, PlayerInterface, sig[1], sig[2])

SpecRender == InitRender /\ [][NextRender]_vars

\* ---------------------------------------------------------- the command line
\* the choices of args.command, and those that call a method of the peer
Commands ==
    {"status", "tail", "scroll", "previous", "next",
     "play", "pause", "playpause", "stop", "help"}
Controls == {"previous", "next", "play", "pause", "playpause", "stop"}

\* the branch of main for args.command, on manager.primary_player:
\* [m, exc, called, emitted, rendered]
dispatch(m, command, failed) ==
    LET pp == m.primary_player
        method == IF command \in {"status", "tail"} THEN "print_status" ELSE command
    IN  IF command \notin Controls \cup {"status", "tail"}
        THEN [m |-> m, exc |-> "none", called |-> FALSE, emitted |-> <<>>,
              rendered |-> FALSE]
        ELSE IF pp = NonePlayer
        THEN [m |-> m, rendered |-> FALSE] @@ NonePlayer_method(method)
        ELSE IF command \in Controls
        THEN LET r == control(m.obj[pp], failed)
             IN  [m |-> [m EXCEPT !.obj[pp] = r.self], exc |-> r.exc,
                  called |-> r.called, emitted |-> r.emitted, rendered |-> FALSE]
        ELSE LET r == print_status(m.obj[pp], format_string)
             IN  [m |-> [m EXCEPT !.obj[pp] = r.self], exc |-> r.exc,
                  called |-> FALSE, emitted |-> r.emitted, rendered |-> TRUE]

\* main past MPRISManager(args.format): the one command of the process. An
\* exception that dispatch raises is caught nowhere and ends the process.
Command(command, failed) ==
    /\ ev.kind = "init"
    /\ ev.exc = "none"
    /\ failed => command \in Controls
    /\ LET r == dispatch(Self, command, failed)
       IN  /\ Becomes(r.m)
           /\ ev' = [Event("command", 0) EXCEPT
                        !.exc = r.exc, !.rendered = r.rendered, !.emitted = r.emitted,
                        !.command = command, !.called = r.called, !.failed = failed]
    /\ UNCHANGED owner

NextCommand == \E command \in Commands, failed \in BOOLEAN : Command(command, failed)

\* the process from its start to the end of its command, on any bus
SpecCommand == InitOn(NameOrders, PeerStates) /\ [][NextCommand]_vars

\* ------------------------------------------------------------------- claims
\* the objects of the dict, and the subscribed ones
Registered == DictVals(players)
Active == {i \in Ids : obj[i].alloc /\ obj[i].connection = "active"}
\* the entries of the dict whose cached playback is Playing or Paused
ActiveEntries == {i \in 1..Len(players) : IsBool(obj[players[i].val].is_playing)}
\* the last event was a topology event of the namespace
Topology == ev.kind \in {"arrival", "departure", "rename"}

\* C1: primary_player is the NonePlayer or an object that is a value of the
\* players dict, in every state after construction and after every handled
\* NameOwnerChanged signal.
C1_PrimaryIsRegistered ==
    primary_player = NonePlayer \/ primary_player \in Registered

\* C2: at most one object holds an active PropertiesChanged subscription, and
\* an object that holds one is primary_player.
C2_OnlyPrimarySubscribed ==
    \A i \in Active : i = primary_player
\* C2's case: a pass has moved the subscription from one object to another
C2_Witness ==
    /\ ev.pass
    /\ primary_player # NonePlayer
    /\ obj[primary_player].connection = "active"
    /\ \E i \in Registered : obj[i].connection = "removed"

\* C3: after an update_players pass during which some entry of the dict has a
\* cached playback of Playing or Paused, primary_player is the first such
\* entry in the order of the dict; the entries before it are Unknown.
C3_FirstActiveIsPrimary ==
    (ev.pass /\ ActiveEntries # {}) =>
        \E i \in ActiveEntries :
            /\ primary_player = players[i].val
            /\ \A j \in 1..(i - 1) : j \notin ActiveEntries
\* C3's case: two entries, the first Unknown, the second Paused and primary
C3_Witness ==
    /\ ev.kind = "arrival"
    /\ ev.pass
    /\ Len(players) = 2
    /\ obj[players[1].val].is_playing = "None"
    /\ obj[players[2].val].is_playing = "False"
    /\ primary_player = players[2].val

\* C4: after an update_players pass during which no entry of the dict has a
\* cached playback of Playing or Paused, primary_player is the NonePlayer, no
\* subscription is active and "NO ACTIVE PLAYERS" has been printed.
C4_NoActiveFallsBack ==
    (ev.pass /\ ActiveEntries = {}) =>
        /\ primary_player = NonePlayer
        /\ Active = {}
        /\ ev.noActive

\* C5: from no players and the NonePlayer, the arrival of a peer followed by
\* the departure of the same peer leaves no players and the NonePlayer, and
\* prints "NO ACTIVE PLAYERS".
C5_ArrivalThenDeparture ==
    [][ (/\ ev.kind = "arrival" /\ ev.fresh
         /\ ev'.kind = "departure" /\ ev'.n = ev.n)
        => (/\ players' = <<>>
            /\ primary_player' = NonePlayer
            /\ ev'.noActive) ]_vars

\* C6: a rename of a registered peer from owner a to owner b leaves its object
\* under key b, metadata and playback as they were, and no key a; an object
\* that was primary_player is still primary_player, still subscribed.
C6_RenameKeepsPrimary ==
    [][ (ev'.kind = "rename" /\ DictHas(players, owner[ev'.n]))
        => LET a == owner[ev'.n]
               b == owner'[ev'.n]
               before == obj[DictGet(players, a)]
           IN  /\ ~DictHas(players', a)
               /\ DictHas(players', b)
               /\ obj'[DictGet(players', b)].metadata = before.metadata
               /\ obj'[DictGet(players', b)].is_playing = before.is_playing
               /\ primary_player = DictGet(players, a)
                    => /\ primary_player' = DictGet(players', b)
                       /\ obj'[primary_player'].connection = "active" ]_vars

\* the entries of the dict for the peer that now has the name n
EntriesOf(n) ==
    {i \in 1..Len(players) : owner[n] # NoOwner /\ obj[players[i].val].bus_name = n}

\* C7: when a registered peer signals a changed PlaybackStatus, handling it
\* runs update_players, so that a peer that is the first entry of the dict and
\* now Playing or Paused is primary_player afterwards.
C7_PlaybackChangeReselects ==
    (ev.kind = "PropertiesChanged" /\ "PlaybackStatus" \in ev.keys /\ EntriesOf(ev.n) # {}) =>
        /\ ev.pass
        /\ (ev.status \in {"Playing", "Paused"} /\ 1 \in EntriesOf(ev.n))
                => primary_player = players[1].val

\* C8: every key of the players dict is the owner of a name now on the bus,
\* never the empty owner; after an arrival the dict has the new owner as a key.
C8_KeysAreLiveOwners ==
    /\ \A k \in DictKeys(players) : k # NoOwner /\ k \in Range(owner)
    /\ ev.kind = "arrival" => DictHas(players, owner[ev.n])

\* C9: every arrival, departure and rename the bus can signal is handled to
\* its end, update_players included, and raises nothing.
C9_TopologyNeverRaises ==
    Topology => (ev.exc = "none" /\ ev.pass)

\* C10: a PropertiesChanged signal of the Player interface that carries
\* Position alone changes no object (metadata, playback and prev_content stay),
\* calls no print_status and prints nothing.
C10_PositionAloneIsSilent ==
    [][ (ev'.kind = "PropertiesChanged" /\ ev'.keys = {"Position"})
        => (/\ obj' = obj
            /\ ~ev'.rendered
            /\ ev'.emitted = <<>>) ]_vars
\* C10's case: the subscribed primary, which has printed before, got the signal
C10_Witness ==
    /\ ev.kind = "PropertiesChanged"
    /\ ev.keys = {"Position"}
    /\ primary_player # NonePlayer
    /\ obj[primary_player].bus_name = ev.n
    /\ obj[primary_player].connection = "active"
    /\ ~obj[primary_player].prev_content.isNone

\* C11: after a PropertiesChanged signal of the Player interface that carries
\* PlaybackStatus, whatever else it carries, the subscribed object's is_playing
\* is the mapping of the value and print_status has been called.
C11_PlaybackStatusAlwaysApplied ==
    (ev.kind = "PropertiesChanged" /\ "PlaybackStatus" \in ev.keys) =>
        \A i \in Subscribed(ev.n) :
            /\ obj[i].is_playing = PlaybackOf(ev.status)
            /\ ev.rendered

\* C12: print_status prints a string only when it differs from prev_content,
\* which is then the string printed; a call that prints nothing leaves
\* prev_content alone; and a second print_status in succession on unchanged
\* metadata and playback prints nothing.
C12_SuppressionIsIdempotent ==
    [][ ev'.kind = "PropertiesChanged" =>
        \A i \in Subscribed(ev'.n) :
            /\ Len(ev'.emitted) <= 1
            /\ ev'.emitted # <<>> =>
                    /\ Content(ev'.emitted[1]) # obj[i].prev_content
                    /\ obj'[i].prev_content = Content(ev'.emitted[1])
            /\ ev'.emitted = <<>> => obj'[i].prev_content = obj[i].prev_content
            /\ (/\ ev.rendered /\ ev.exc = "none" /\ ev'.rendered
                /\ obj'[i].metadata = obj[i].metadata
                /\ obj'[i].is_playing = obj[i].is_playing)
                    => ev'.emitted = <<>> ]_vars
\* C12's case: print_status ran on an object that had printed and printed nothing
C12_Witness ==
    /\ ev.kind = "PropertiesChanged"
    /\ ev.rendered
    /\ ev.exc = "none"
    /\ ev.emitted = <<>>
    /\ \E i \in Subscribed(ev.n) : ~obj[i].prev_content.isNone

\* C13: a full refresh that reports "METADATA UNAVAILABLE", whichever of its
\* two Get calls failed, leaves metadata and is_playing of the object as they
\* were and returns False, so that print_status is not called.
C13_FailedRefreshKeepsCache ==
    [][ (ev'.kind = "PropertiesChanged" /\ ev'.unavailable)
        => (/\ \A i \in Subscribed(ev'.n) :
                    /\ obj'[i].metadata = obj[i].metadata
                    /\ obj'[i].is_playing = obj[i].is_playing
            /\ ~ev'.rendered) ]_vars

\* C14: a play, pause, playpause, stop, previous or next of the command line
\* whose call of the primary peer fails with DBusException raises nothing out
\* of main, so that the process ends as after a call that succeeded.
C14_FailedControlIsNotFatal ==
    (ev.kind = "command" /\ ev.command \in Controls /\ ev.called /\ ev.failed)
        => ev.exc = "none"

\* C16: a command of the command line that meets the NonePlayer as
\* primary_player calls no method of a peer, prints nothing, raises nothing,
\* and leaves the players dict, the objects and primary_player as they were.
C16_NonePlayerCommandsAreNoOps ==
    [][ (ev'.kind = "command" /\ primary_player = NonePlayer)
        => (/\ ~ev'.called
            /\ ev'.emitted = <<>>
            /\ ev'.exc = "none"
            /\ players' = players
            /\ obj' = obj
            /\ primary_player' = NonePlayer) ]_vars
\* C16's case: a control met the NonePlayer on a bus that has a peer and that
\* fails every call
C16_Witness ==
    /\ ev.kind = "command"
    /\ ev.command \in Controls
    /\ ev.failed
    /\ primary_player = NonePlayer
    /\ players # <<>>

\* C15: a NameOwnerChanged signal for a name outside the namespace leaves the
\* players dict, every object (its metadata, playback and subscription) and
\* primary_player as they were, runs no update_players and prints no
\* "NO ACTIVE PLAYERS".
C15_OtherNamesAreIgnored ==
    [][ (ev'.n = 0 /\ ev'.kind \in {"ignored", "arrival", "departure", "rename"})
        => (/\ players' = players
            /\ obj' = obj
            /\ primary_player' = primary_player
            /\ ev'.exc = "none"
            /\ ~ev'.pass
            /\ ~ev'.noActive) ]_vars
\* C15's case: the signal met a manager with two players, one of them primary
C15_Witness ==
    /\ ev.kind = "ignored"
    /\ Len(players) = 2
    /\ primary_player # NonePlayer
    /\ obj[primary_player].connection = "active"

\* C17: after a PropertiesChanged signal that carries Metadata and no
\* Position, if some title, artist or album of it differs from the cache, the
\* cache is the old one with the first such key, in the order of the signal's
\* dict, set to the signal's value, and print_status has been called; if none
\* differs and the signal carries no PlaybackStatus, the object is as it was
\* and print_status has not been called.
C17_FirstDifferingSubFieldOnly ==
    [][ (ev'.kind = "PropertiesChanged" /\ "Metadata" \in ev'.keys
            /\ "Position" \notin ev'.keys)
        => \A i \in Subscribed(ev'.n) :
            LET md == ev'.metadata
                cache == obj[i].metadata
                D == {k \in 1..Len(md) :
                        /\ normal_key(md[k].key) \in {"title", "artist", "album"}
                        /\ cache[normal_key(md[k].key)] # md[k].val}
            IN  IF D # {}
                THEN /\ \E k \in D :
                        /\ \A j \in D : k <= j
                        /\ obj'[i].metadata =
                                [cache EXCEPT ![normal_key(md[k].key)] = md[k].val]
                     /\ ev'.rendered
                ELSE "PlaybackStatus" \notin ev'.keys
                        => (obj'[i] = obj[i] /\ ~ev'.rendered) ]_vars
\* C17's case: of a signal whose dict has album before title, both differing
\* from the cache, the album was taken and the title was not
C17_Witness ==
    /\ ev.kind = "PropertiesChanged"
    /\ "Metadata" \in ev.keys
    /\ "Position" \notin ev.keys
    /\ ev.rendered
    /\ \E i \in Subscribed(ev.n) :
            /\ DictHas(ev.metadata, Xesam("album"))
            /\ DictHas(ev.metadata, Xesam("title"))
            /\ obj[i].metadata.album = DictGet(ev.metadata, Xesam("album"))
            /\ obj[i].metadata.title # DictGet(ev.metadata, Xesam("title"))

\* what a tag of the format string stands for
TagValue(letter, metadata) ==
    IF \E key \in DOMAIN metadata : letter = Tag(key)
    THEN LET v == metadata[CHOOSE key \in DOMAIN metadata : letter = Tag(key)]
         IN  IF v.isList THEN v.l[1] ELSE v.s
    ELSE letter
\* the one place of a letter in a format string
PlaceOf(format, letter) == CHOOSE k \in 1..Len(format) : format[k] = letter
RECURSIVE KeptFrom(_, _, _, _)
\* the format from its k-th letter on, without the markers of the kept block
\* and without the dropped block, markers and content, its tags replaced
KeptFrom(format, metadata, dropped, k) ==
    IF k > Len(format) THEN ""
    ELSE LET kept == IF dropped = "paused" THEN "playing" ELSE "paused"
             out == \/ format[k] \in {Tag(kept), Tag("/" \o kept)}
                    \/ /\ PlaceOf(format, Tag(dropped)) <= k
                       /\ k <= PlaceOf(format, Tag("/" \o dropped))
         IN  (IF out THEN "" ELSE TagValue(format[k], metadata))
                \o KeptFrom(format, metadata, dropped, k + 1)

\* C18: under a format with one playing block and one paused block,
\* print_status of a Playing object gives the format with the content of the
\* playing block kept and the paused block gone, and print_status of a Paused
\* or Unknown object gives it with the content of the paused block kept and
\* the playing block gone, the same string for both.
C18_BlocksFollowPlayback ==
    (ev.kind = "PropertiesChanged" /\ ev.rendered /\ ev.exc = "none") =>
        \A i \in Subscribed(ev.n) :
            obj[i].prev_content =
                Content(KeptFrom(format_string, obj[i].metadata,
                                 IF obj[i].is_playing = "True" THEN "paused" ELSE "playing",
                                 1))
\* C18's case: an Unknown object printed under a format whose paused block
\* comes first and whose blocks both hold text
C18_Witness ==
    /\ ev.kind = "PropertiesChanged"
    /\ ev.rendered
    /\ ev.emitted # <<>>
    /\ \E i \in Subscribed(ev.n) : obj[i].is_playing = "None"
    /\ PlaceOf(format_string, Tag("paused")) < PlaceOf(format_string, Tag("playing"))
    /\ PlaceOf(format_string, Tag("/paused")) > PlaceOf(format_string, Tag("paused")) + 1
    /\ PlaceOf(format_string, Tag("/playing")) > PlaceOf(format_string, Tag("playing")) + 1

\* C19: a PropertiesChanged signal, of any peer and any interface, leaves
\* every object of the players dict that is not primary_player as it was
\* (metadata, playback, prev_content); and an object of the dict that has
\* never been primary_player, its connection still None, has printed nothing.
C19_OnlyPrimaryIsMutated ==
    [][ /\ ev'.kind \in {"PropertiesChanged", "OtherInterface"}
            => \A i \in Registered : i # primary_player => obj'[i] = obj[i]
        /\ \A i \in DictVals(players') :
                obj'[i].connection = "None" => obj'[i].prev_content.isNone ]_vars
\* C19's case: a registered peer that is not primary signalled a PlaybackStatus
\* other than the one its object caches, which it still caches
C19_Witness ==
    /\ ev.kind = "PropertiesChanged"
    /\ ev.keys = {"PlaybackStatus"}
    /\ primary_player # NonePlayer
    /\ owner[ev.n] # NoOwner
    /\ \E i \in Registered :
            /\ i # primary_player
            /\ obj[i].bus_name = ev.n
            /\ obj[i].is_playing # PlaybackOf(ev.status)

\* C20: update_players calls disconnect() only on the NonePlayer or on an
\* object whose connection is active, never on one whose connection is None
\* or removed, and calls connect() only on an object whose connection is not
\* active; so the connect and disconnect calls of an object alternate.
C20_ConnectDisconnectAlternate ==
    /\ ev.disconnected \in {"", "NonePlayer", "active"}
    /\ ev.connected \in {"", "None", "removed"}
\* C20's case: the subscription went from an active object to one that had
\* been primary_player before
C20_Witness ==
    /\ ev.pass
    /\ ev.disconnected = "active"
    /\ ev.connected = "removed"
    /\ obj[primary_player].connection = "active"

====
